---- MODULE Spec2Model ----
(***************************************************************************)
(* Model of the offline durability and synchronisation subsystem of the    *)
(* feedback widget: the IndexedDB-backed OfflineQueue                      *)
(* (src/core/offline-queue.ts) and the delivery callback the widget        *)
(* registers on it (FeedbackWidget.syncQueuedSubmission,                   *)
(* src/core/widget.ts).                                                    *)
(*                                                                         *)
(* Every await of the source is a suspension point: an async sync() call   *)
(* is a process with a program counter, and the environment (enqueue,      *)
(* clear, remove, online/offline events, timers, close) interleaves        *)
(* between its steps.  An IndexedDB request takes effect in the order in   *)
(* which its transaction was created, so the effect of a store operation   *)
(* is modelled at the step that issues it and its result (resolved or      *)
(* rejected) is consumed by the step after the await.                      *)
(***************************************************************************)
EXTENDS Integers, Sequences, FiniteSets, TLC

\* ---------------------------------------------------------------- bounds
MaxItems == 2       \* submissions enqueued in one behaviour
ScenarioItems == 3  \* submissions enqueued in a behaviour of SpecRetry
MaxTime == 1        \* largest value of the Date.now() clock
MaxTimers == 1      \* settle timers pending at once
MaxFaults == 1      \* rejected IndexedDB requests in one behaviour
MaxCloses == 1      \* close() calls in one behaviour
MaxRemoves == 2     \* remove(id) calls of the host in one behaviour
MaxSize == 5        \* largest recording, in units of half a MiB
MaxUploads == 2     \* uploadRecording calls in one behaviour
MaxSubmits == 2     \* submit and submitWithScreenshot calls in one behaviour
Cap == 4            \* the observation counters saturate here

\* ------------------------------------------------------- program constants
DefaultMaxRetries == 3
ChunkSize == 2      \* CHUNK_SIZE (1 MiB), in units of half a MiB

Ids == 1..(IF MaxItems > ScenarioItems THEN MaxItems ELSE ScenarioItems)
Procs == {1, 2}     \* slots for sync() invocations that got past the guard

\* caller-supplied part of a queued submission: is there a screenshot, is
\* there a recording with its metadata
PlainPayload == [shot |-> FALSE, rec |-> FALSE]
Payloads ==
  { PlainPayload,
    [shot |-> TRUE,  rec |-> FALSE],
    [shot |-> FALSE, rec |-> TRUE] }

\* values of OfflineQueueConfig.maxRetries handed to the constructor
MaxRetriesChoices == {1, 2}

NetworkErrorMsg == "network error"
StoreErrorMsg == "store error"
SyncFailedMsg == "Sync failed"

VARIABLES
  hasIDB,          \* typeof indexedDB !== 'undefined' on this platform
  maxRetries,      \* this.config.maxRetries
  db,              \* this.db: "null" or "open"
  listening,       \* online/offline listeners registered on window
  store,           \* the durable object store: id -> QueuedSubmission
  isOnline,        \* this.isOnline
  syncInProgress,  \* this.syncInProgress
  syncCallback,    \* this.syncCallback: "none", "widget" or "stub"
  timers,          \* settle timers scheduled by handleOnline, not yet fired
  nextId,          \* serial number of the next generated id
  now,             \* Date.now()
  pc,              \* per sync() invocation: where it is suspended
  pending,         \* per invocation: the snapshot returned by getPending
  idx,             \* per invocation: position of the for loop in pending
  succeeded,       \* per invocation: local counter
  failed,          \* per invocation: local counter
  opOk,            \* per invocation: did the awaited store request resolve
  \* ---- the environment's budget in this behaviour
  itemsLeft,       \* enqueue calls still to come
  faultsLeft,      \* IndexedDB requests that may still be rejected
  closesLeft,      \* close() calls still to come
  removesLeft,     \* remove(id) calls of the host still to come
  \* ---- observation of the run (never read by the program)
  ev,              \* what the latest step returned to its caller
  nFail,           \* per id: callback results false or throw
  nThrow,          \* per id: callback results throw
  nTrue,           \* per id: callback results true
  accepted,        \* per id: times the server accepted the primary record
  passLog,         \* per invocation: items handed out in this pass, in order
  nMaxNotif,       \* per id: onSubmissionFailed(id, 'Max retries exceeded')
  nErrNotif,       \* per id: onSubmissionFailed(id, <other error>)
  nSynced,         \* per id: onSubmissionSynced(id)
  nOpen,           \* onSyncStart calls minus onSyncComplete calls
  \* ---- FeedbackTransport.uploadRecording
  upload,          \* the invocation: where it is suspended and its locals
  calls,           \* requests the invocation has issued, in order
  uploadsLeft,     \* uploadRecording calls still to come
  nextUploadId,    \* the upload id the server hands out next
  \* ---- FeedbackWidget
  isSubmitting,    \* this.state.isSubmitting
  submission,      \* the submission in progress: where it is suspended
  res,             \* the response the latest submit call returned
  submitsLeft      \* submit and submitWithScreenshot calls still to come

progVars == <<hasIDB, maxRetries, db, listening, store, isOnline,
              syncInProgress, syncCallback, timers, nextId, now,
              pc, pending, idx, succeeded, failed, opOk>>
budgetVars == <<itemsLeft, faultsLeft, closesLeft>>
hostVars == <<removesLeft>>
uploadVars == <<upload, calls, uploadsLeft, nextUploadId>>
submitVars == <<isSubmitting, submission, res, submitsLeft>>
appVars == <<uploadVars, submitVars>>
tallyVars == <<nFail, nThrow, nTrue, accepted, nMaxNotif, nErrNotif, nSynced>>
obsVars == <<ev, tallyVars, passLog, nOpen>>
vars == <<progVars, budgetVars, hostVars, appVars, obsVars>>

\* ------------------------------------------------------------- helpers
Sat(n) == IF n < Cap THEN n + 1 ELSE n
Bump(f, id) == [f EXCEPT ![id] = Sat(f[id])]

\* ev: op is "zero" (sync() refused by its guard), "done" (sync() returned
\* after a pass), "threw" (sync() rejected after a pass) or "none" (any
\* other step); succeeded/failed is the value returned, complete the
\* arguments of the onSyncComplete call of the step
NoComplete == <<-1, -1>>
NoEv == [op |-> "none", succeeded |-> 0, failed |-> 0, complete |-> NoComplete]
ZeroResult == [op |-> "zero", succeeded |-> 0, failed |-> 0,
               complete |-> NoComplete]

\* a record built without the caller's screenshot
NewItemNoShot(id, payload, t) ==
  [id |-> id, shot |-> FALSE, rec |-> payload.rec,
   createdAt |-> t, retryCount |-> 0, lastError |-> "none"]

\* the QueuedSubmission built by enqueue
NewItem(id, payload, t) ==
  [id |-> id, shot |-> payload.shot, rec |-> payload.rec,
   createdAt |-> t, retryCount |-> 0, lastError |-> "none"]

\* the order of the retryCount index instead of the createdAt index
IndexBeforeRetryCount(a, b) ==
  \/ a.retryCount < b.retryCount
  \/ a.retryCount = b.retryCount /\ a.id < b.id

\* (createdAt, primary key) order of the createdAt index
IndexBefore(a, b) ==
  \/ a.createdAt < b.createdAt
  \/ a.createdAt = b.createdAt /\ a.id < b.id

RECURSIVE IndexGetAll(_)
IndexGetAll(items) ==
  IF items = {} THEN <<>>
  ELSE LET first == CHOOSE a \in items :
                      \A b \in items \ {a} : IndexBefore(a, b)
       IN <<first>> \o IndexGetAll(items \ {first})

StoreItems == {store[i] : i \in DOMAIN store}

\* getPending(): [] without a database, else the createdAt index in order
GetPending == IF db = "null" THEN <<>> ELSE IndexGetAll(StoreItems)

\* a delete that empties the object store
DeletedAll(s, id) == [i \in {} |-> 0]
\* store.delete(id) / store.put(item) / store.add(item) / store.clear()
Deleted(s, id) == [i \in DOMAIN s \ {id} |-> s[i]]
Put(s, item) == [i \in DOMAIN s \cup {item.id} |->
                   IF i = item.id THEN item ELSE s[i]]

\* a threshold that takes maxRetries as it is
ThresholdRaw == maxRetries

\* a threshold one too high: retryCount > maxRetries
ThresholdOffByOne ==
  IF maxRetries = 0 THEN DefaultMaxRetries + 1 ELSE maxRetries + 1

\* this.config.maxRetries || 3
Threshold == IF maxRetries = 0 THEN DefaultMaxRetries ELSE maxRetries

\* a guard that only asks for a callback
SyncGuardCallbackOnly == syncCallback # "none"

\* a guard that forgets the connectivity flag
SyncGuardNoOnline == ~syncInProgress /\ syncCallback # "none"

\* a guard that forgets the syncInProgress flag
SyncGuardNoFlag == isOnline /\ syncCallback # "none"

\* the guard of sync(): online, no pass in progress, a callback registered
SyncGuard == isOnline /\ ~syncInProgress /\ syncCallback # "none"

\* a request issued now may be rejected while the fault budget lasts
Outcomes == IF faultsLeft > 0 THEN {TRUE, FALSE} ELSE {TRUE}
Spend(ok) == IF ok THEN faultsLeft ELSE faultsLeft - 1

Active(p) == pc[p] # "idle"

\* passLog entry: the item handed out and what became of it: "?" callback
\* pending, "T" returned true, "F" returned false, "X" threw, "A" abandoned
Entry(item, out) == [id |-> item.id, at |-> item.createdAt, out |-> out]
CurItem(p) == pending[p][idx[p]]


\* uploadRecording is not running; result is what the last invocation
\* settled with: "none", "success", "failure" (a result with success:false)
\* or "threw" (the promise was rejected)
\* answer is what the latest awaited request did, before is how the
\* invocation before this one settled, path is completeResult.path and
\* error names the request whose error a failure result carries
IdleUpload ==
  [pc |-> "idle", size |-> 0, totalChunks |-> 0, uploadId |-> 0, i |-> 0,
   path |-> 0, answer |-> "none", result |-> "none", error |-> "none",
   before |-> "none"]

\* no submission in progress. A submission keeps the entry point called,
\* the caller's payload, what it saw when it was called (the queue said
\* offline, the database was open), whether the server accepted its primary
\* record, and the payload and id of the record it queued
IdleSub ==
  [pc |-> "idle", kind |-> "none", payload |-> PlainPayload,
   offline |-> FALSE, open |-> FALSE, posted |-> FALSE,
   queued |-> PlainPayload, id |-> 0]
\* no submit call has returned yet
NoResponse ==
  [kind |-> "none", payload |-> PlainPayload, offline |-> FALSE,
   open |-> FALSE, posted |-> FALSE, queued |-> PlainPayload, id |-> 0,
   outcome |-> "none"]

\* ---------------------------------------------------------------- Init
\* the state after `new OfflineQueue(config)`: no database handle, no
\* callback, isOnline read from navigator.onLine
Unopened ==
  /\ db = "null"
  /\ listening = FALSE
  /\ store = [i \in {} |-> 0]
  /\ isOnline \in BOOLEAN
  /\ syncInProgress = FALSE
  /\ timers = 0
  /\ nextId = 1
  /\ now = 0
  /\ pc = [p \in Procs |-> "idle"]
  /\ pending = [p \in Procs |-> <<>>]
  /\ idx = [p \in Procs |-> 0]
  /\ succeeded = [p \in Procs |-> 0]
  /\ failed = [p \in Procs |-> 0]
  /\ opOk = [p \in Procs |-> TRUE]
  /\ ev = NoEv
  /\ nFail = [i \in Ids |-> 0]
  /\ nThrow = [i \in Ids |-> 0]
  /\ nTrue = [i \in Ids |-> 0]
  /\ accepted = [i \in Ids |-> 0]
  /\ passLog = [p \in Procs |-> <<>>]
  /\ nMaxNotif = [i \in Ids |-> 0]
  /\ nErrNotif = [i \in Ids |-> 0]
  /\ nSynced = [i \in Ids |-> 0]
  /\ nOpen = 0
  /\ upload = IdleUpload
  /\ isSubmitting = FALSE
  /\ submission = IdleSub
  /\ res = NoResponse
  /\ calls = <<>>
  /\ nextUploadId = 1

\* the queue on its own, used by a host that registers its own callback:
\* a behaviour has rejected store requests, close() calls or remove(id)
\* calls of the host
Fresh == Unopened /\ syncCallback = "none"

Init ==
  /\ Fresh
  /\ hasIDB \in BOOLEAN
  /\ maxRetries \in MaxRetriesChoices
  /\ itemsLeft = MaxItems
  /\ \/ faultsLeft = MaxFaults /\ closesLeft = 0 /\ removesLeft = 0
     \/ faultsLeft = 0 /\ closesLeft = MaxCloses /\ removesLeft = 0
     \/ faultsLeft = 0 /\ closesLeft = 0 /\ removesLeft = MaxRemoves
  /\ uploadsLeft = 0
  /\ submitsLeft = 0

\* the queue on its own with the default maxRetries, a healthy store and
\* no clear/remove/close by the host
InitRetry ==
  /\ Fresh
  /\ hasIDB = TRUE
  /\ maxRetries = DefaultMaxRetries
  /\ itemsLeft = ScenarioItems
  /\ faultsLeft = 0
  /\ closesLeft = 0
  /\ removesLeft = 0
  /\ uploadsLeft = 0
  /\ submitsLeft = 0

\* the queue as FeedbackWidget.initOfflineQueue builds it: maxRetries 3,
\* syncQueuedSubmission registered before init()
InitWidget ==
  /\ Unopened
  /\ syncCallback = "widget"
  /\ hasIDB = TRUE
  /\ maxRetries = DefaultMaxRetries
  /\ itemsLeft = MaxItems
  /\ faultsLeft = 0
  /\ closesLeft = 0
  /\ removesLeft = 0
  /\ uploadsLeft = 0
  /\ submitsLeft = 0

\* the queue used as a store only: the host enqueues, removes and reads,
\* closes and reopens; no delivery callback is registered
InitStore ==
  /\ Fresh
  /\ hasIDB \in BOOLEAN
  /\ maxRetries = DefaultMaxRetries
  /\ itemsLeft = MaxItems
  /\ faultsLeft = 0
  /\ closesLeft = MaxCloses
  /\ removesLeft = MaxRemoves
  /\ uploadsLeft = 0
  /\ submitsLeft = 0

\* ------------------------------------------------- lifecycle and store API
\* ev of a step that is a call of the host into the queue: the method, its
\* argument, whether the promise was rejected, and the value it resolved to
Called(op, arg, value) ==
  [op |-> op, arg |-> arg, threw |-> FALSE, value |-> value]
Rejected(op, arg, msg) ==
  [op |-> op, arg |-> arg, threw |-> TRUE, value |-> msg]

NotInitializedMsg == "OfflineQueue not initialized"

\* init(): without IndexedDB warn and resolve; else open the database and
\* register the online/offline listeners
InitQueue ==
  /\ db = "null"
  /\ IF hasIDB
       THEN db' = "open" /\ listening' = TRUE
       ELSE UNCHANGED <<db, listening>>
  /\ ev' = Called("init", "none", "void")
  /\ UNCHANGED <<hasIDB, maxRetries, store, isOnline, syncInProgress,
                 syncCallback, timers, nextId, now, pc, pending, idx,
                 succeeded, failed, opOk, budgetVars, hostVars, appVars, tallyVars,
                 passLog, nOpen>>

\* close(): drop the handle and the listeners; timers stay scheduled
Close ==
  /\ closesLeft > 0
  /\ db = "open" \/ listening
  /\ db' = "null"
  /\ listening' = FALSE
  /\ closesLeft' = closesLeft - 1
  /\ ev' = NoEv
  /\ UNCHANGED <<hasIDB, maxRetries, store, isOnline, syncInProgress,
                 syncCallback, timers, nextId, now, pc, pending, idx,
                 succeeded, failed, opOk, itemsLeft, faultsLeft, hostVars, appVars,
                 tallyVars, passLog, nOpen>>

\* setSyncCallback(callback)
SetSyncCallback(kind) ==
  /\ syncCallback = "none"
  /\ syncCallback' = kind
  /\ ev' = NoEv
  /\ UNCHANGED <<hasIDB, maxRetries, db, listening, store, isOnline,
                 syncInProgress, timers, nextId, now, pc, pending, idx,
                 succeeded, failed, opOk, budgetVars, hostVars, appVars, tallyVars,
                 passLog, nOpen>>

\* an enqueue whose record is also appended to the snapshot of a pass
\* that is running
EnqueueIntoPass(payload, dt) ==
  /\ IF db = "null"
       THEN /\ ev' = Rejected("enqueue", payload, NotInitializedMsg)
            /\ UNCHANGED <<store, nextId, now, itemsLeft, pending>>
       ELSE /\ itemsLeft > 0
            /\ now + dt <= MaxTime
            /\ now' = now + dt
            /\ nextId' = nextId + 1
            /\ itemsLeft' = itemsLeft - 1
            /\ store' = Put(store, NewItem(nextId, payload, now'))
            /\ pending' = [p \in Procs |->
                             IF Active(p)
                               THEN Append(pending[p],
                                           NewItem(nextId, payload, now'))
                               ELSE pending[p]]
            /\ ev' = Called("enqueue", payload, nextId)
  /\ UNCHANGED <<hasIDB, maxRetries, db, listening, isOnline,
                 syncInProgress, syncCallback, timers, pc, idx,
                 succeeded, failed, opOk, faultsLeft, closesLeft, hostVars, appVars,
                 tallyVars, passLog, nOpen>>

\* enqueue(item): throws without a database, else adds a fresh record and
\* resolves to its id
Enqueue(payload, dt) ==
  /\ IF db = "null"
       THEN /\ ev' = Rejected("enqueue", payload, NotInitializedMsg)
            /\ UNCHANGED <<store, nextId, now, itemsLeft>>
       ELSE /\ itemsLeft > 0
            /\ now + dt <= MaxTime
            /\ now' = now + dt
            /\ nextId' = nextId + 1
            /\ itemsLeft' = itemsLeft - 1
            /\ store' = Put(store, NewItem(nextId, payload, now'))
            /\ ev' = Called("enqueue", payload, nextId)
  /\ UNCHANGED <<hasIDB, maxRetries, db, listening, isOnline,
                 syncInProgress, syncCallback, timers, pc, pending, idx,
                 succeeded, failed, opOk, faultsLeft, closesLeft, hostVars, appVars,
                 tallyVars, passLog, nOpen>>

\* getPendingCount(): 0 without a database, else store.count()
GetPendingCount == IF db = "null" THEN 0 ELSE Cardinality(DOMAIN store)

\* the host reads the queue: getPending() or getPendingCount()
GetPendingCall ==
  /\ ev' = Called("getPending", "none", GetPending)
  /\ UNCHANGED <<progVars, budgetVars, hostVars, appVars, tallyVars, passLog, nOpen>>

GetPendingCountCall ==
  /\ ev' = Called("getPendingCount", "none", GetPendingCount)
  /\ UNCHANGED <<progVars, budgetVars, hostVars, appVars, tallyVars, passLog, nOpen>>

\* remove(id) called by the host application: nothing without a database,
\* else store.delete(id), which succeeds whether or not the key exists
Remove(id) ==
  /\ removesLeft > 0
  /\ removesLeft' = removesLeft - 1
  /\ store' = IF db = "null" THEN store ELSE Deleted(store, id)
  /\ ev' = Called("remove", id, "void")
  /\ UNCHANGED <<hasIDB, maxRetries, db, listening, isOnline,
                 syncInProgress, syncCallback, timers, nextId, now, pc,
                 pending, idx, succeeded, failed, opOk, budgetVars, appVars,
                 tallyVars, passLog, nOpen>>

\* clear(): nothing without a database, else store.clear()
Clear ==
  /\ store' = IF db = "null" THEN store ELSE [i \in {} |-> 0]
  /\ ev' = Called("clear", "none", "void")
  /\ UNCHANGED <<hasIDB, maxRetries, db, listening, isOnline,
                 syncInProgress, syncCallback, timers, nextId, now, pc,
                 pending, idx, succeeded, failed, opOk, budgetVars, hostVars, appVars,
                 tallyVars, passLog, nOpen>>

\* ------------------------------------------------------- network monitor
\* a handleOnline that sets the flag and schedules nothing
HandleOnlineNoTimer ==
  /\ listening
  /\ ~isOnline
  /\ isOnline' = TRUE
  /\ ev' = NoEv
  /\ UNCHANGED <<hasIDB, maxRetries, db, listening, store, syncInProgress,
                 syncCallback, timers, nextId, now, pc, pending, idx,
                 succeeded, failed, opOk, budgetVars, hostVars, appVars, tallyVars,
                 passLog, nOpen>>

\* handleOnline: set the flag, schedule sync() after the settle delay
HandleOnline ==
  /\ listening
  /\ timers < MaxTimers
  /\ isOnline' = TRUE
  /\ timers' = timers + 1
  /\ ev' = NoEv
  /\ UNCHANGED <<hasIDB, maxRetries, db, listening, store, syncInProgress,
                 syncCallback, nextId, now, pc, pending, idx, succeeded,
                 failed, opOk, budgetVars, hostVars, appVars, tallyVars, passLog,
                 nOpen>>

\* a handleOffline that cancels the pass in progress
HandleOfflineAborts ==
  /\ listening
  /\ isOnline
  /\ isOnline' = FALSE
  /\ syncInProgress' = FALSE
  /\ pc' = [p \in Procs |-> "idle"]
  /\ pending' = [p \in Procs |-> <<>>]
  /\ idx' = [p \in Procs |-> 0]
  /\ passLog' = [p \in Procs |-> <<>>]
  /\ ev' = NoEv
  /\ UNCHANGED <<hasIDB, maxRetries, db, listening, store, syncCallback,
                 timers, nextId, now, succeeded, failed, opOk, budgetVars,
                 hostVars, appVars, tallyVars, nOpen>>

\* handleOffline: only the flag
HandleOffline ==
  /\ listening
  /\ isOnline
  /\ isOnline' = FALSE
  /\ ev' = NoEv
  /\ UNCHANGED <<hasIDB, maxRetries, db, listening, store, syncInProgress,
                 syncCallback, timers, nextId, now, pc, pending, idx,
                 succeeded, failed, opOk, budgetVars, hostVars, appVars, tallyVars,
                 passLog, nOpen>>

\* ------------------------------------------------------------ sync pass
\* variables no step of a sync pass assigns
envVars == <<hasIDB, maxRetries, db, listening, isOnline, syncCallback,
             nextId, now, itemsLeft, closesLeft, hostVars, appVars>>

\* results a request issued now can have: a closed queue returns at once
ReqOutcomes == IF db = "open" THEN Outcomes ELSE {TRUE}

\* effect of remove(id) / update(item) issued by the pass
\* a remove that leaves the record in place
RemoveEffectKeep(id, ok) == store
RemoveEffect(id, ok) == IF db = "open" /\ ok THEN Deleted(store, id) ELSE store
\* an update that deletes the record instead of replacing it
UpdateEffectDrop(item, ok) ==
  IF db = "open" /\ ok THEN Deleted(store, item.id) ELSE store
\* an update that is never persisted
UpdateEffectStale(item, ok) == store
UpdateEffect(item, ok) == IF db = "open" /\ ok THEN Put(store, item) ELSE store

FreeSlot(p) == /\ ~Active(p)
               /\ \A q \in Procs : q < p => Active(q)

\* a sync() without finally: a rejection leaves the flag set and skips
\* onSyncComplete
FinallyOnlyOnReturn(p, kind) ==
  /\ syncInProgress' = (kind = "threw")
  /\ nOpen' = IF kind = "threw" THEN nOpen
              ELSE IF nOpen > -1 THEN nOpen - 1 ELSE nOpen
  /\ ev' = [op |-> kind, succeeded |-> succeeded[p], failed |-> failed[p],
            complete |-> IF kind = "threw" THEN NoComplete
                         ELSE <<succeeded[p], failed[p]>>]
  /\ pc' = [pc EXCEPT ![p] = "idle"]
  /\ pending' = [pending EXCEPT ![p] = <<>>]
  /\ idx' = [idx EXCEPT ![p] = 0]
  /\ succeeded' = [succeeded EXCEPT ![p] = 0]
  /\ failed' = [failed EXCEPT ![p] = 0]
  /\ opOk' = [opOk EXCEPT ![p] = TRUE]
  /\ passLog' = [passLog EXCEPT ![p] = <<>>]

\* the finally block of sync(): reset the flag, onSyncComplete, return/throw
Finally(p, kind) ==
  /\ syncInProgress' = FALSE
  /\ nOpen' = IF nOpen > -1 THEN nOpen - 1 ELSE nOpen
  /\ ev' = [op |-> kind, succeeded |-> succeeded[p], failed |-> failed[p],
            complete |-> <<succeeded[p], failed[p]>>]
  /\ pc' = [pc EXCEPT ![p] = "idle"]
  /\ pending' = [pending EXCEPT ![p] = <<>>]
  /\ idx' = [idx EXCEPT ![p] = 0]
  /\ succeeded' = [succeeded EXCEPT ![p] = 0]
  /\ failed' = [failed EXCEPT ![p] = 0]
  /\ opOk' = [opOk EXCEPT ![p] = TRUE]
  /\ passLog' = [passLog EXCEPT ![p] = <<>>]

\* sync() up to its first await: the guard, the flag, onSyncStart and the
\* getPending request
SyncBody ==
  IF ~SyncGuard
    THEN /\ ev' = ZeroResult
         /\ UNCHANGED <<envVars, store, syncInProgress, pc, pending, idx,
                        succeeded, failed, opOk, faultsLeft, tallyVars,
                        passLog, nOpen>>
    ELSE \E p \in Procs, ok \in ReqOutcomes :
         /\ FreeSlot(p)
         /\ syncInProgress' = TRUE
         /\ nOpen' = IF nOpen < 2 THEN nOpen + 1 ELSE nOpen
         /\ pending' = [pending EXCEPT ![p] = IF ok THEN GetPending ELSE <<>>]
         /\ opOk' = [opOk EXCEPT ![p] = ok]
         /\ faultsLeft' = Spend(ok)
         /\ idx' = [idx EXCEPT ![p] = 1]
         /\ succeeded' = [succeeded EXCEPT ![p] = 0]
         /\ failed' = [failed EXCEPT ![p] = 0]
         /\ passLog' = [passLog EXCEPT ![p] = <<>>]
         /\ pc' = [pc EXCEPT ![p] = "loop"]
         /\ ev' = NoEv
         /\ UNCHANGED <<envVars, store, tallyVars>>

\* sync() called by the host application (FeedbackWidget.syncOffline)
ManualSync == SyncBody /\ UNCHANGED timers

\* the settle timer of handleOnline fires and calls sync()
TimerFires ==
  /\ timers > 0
  /\ timers' = timers - 1
  /\ SyncBody

\* the for loop is past the last item of the snapshot, or getPending was
\* rejected: sync() leaves through the finally block
PassEnds(p) ==
  /\ pc[p] = "loop"
  /\ ~opOk[p] \/ idx[p] > Len(pending[p])
  /\ Finally(p, IF opOk[p] THEN "done" ELSE "threw")
  /\ UNCHANGED <<envVars, timers, store, faultsLeft, tallyVars>>

\* retryCount >= (maxRetries || 3): notify, then remove
Abandon(p) ==
  /\ pc[p] = "loop"
  /\ opOk[p]
  /\ idx[p] <= Len(pending[p])
  /\ CurItem(p).retryCount >= Threshold
  /\ \E ok \in ReqOutcomes :
       /\ store' = RemoveEffect(CurItem(p).id, ok)
       /\ opOk' = [opOk EXCEPT ![p] = ok]
       /\ faultsLeft' = Spend(ok)
  /\ nMaxNotif' = Bump(nMaxNotif, CurItem(p).id)
  /\ passLog' = [passLog EXCEPT ![p] = Append(@, Entry(CurItem(p), "A"))]
  /\ pc' = [pc EXCEPT ![p] = "abandon"]
  /\ ev' = NoEv
  /\ UNCHANGED <<envVars, timers, syncInProgress, pending, idx, succeeded,
                 failed, nFail, nThrow, nTrue, accepted, nErrNotif, nSynced,
                 nOpen>>

\* the remove of an abandoned item returned: failed++ and continue, or the
\* rejection leaves sync() through the finally block
AfterAbandon(p) ==
  /\ pc[p] = "abandon"
  /\ IF opOk[p]
       THEN /\ failed' = [failed EXCEPT ![p] = @ + 1]
            /\ idx' = [idx EXCEPT ![p] = @ + 1]
            /\ pc' = [pc EXCEPT ![p] = "loop"]
            /\ ev' = NoEv
            /\ UNCHANGED <<syncInProgress, pending, succeeded, opOk,
                           passLog, nOpen>>
       ELSE Finally(p, "threw")
  /\ UNCHANGED <<envVars, timers, store, faultsLeft, tallyVars>>

\* await this.syncCallback(item)
InvokeCallback(p) ==
  /\ pc[p] = "loop"
  /\ opOk[p]
  /\ idx[p] <= Len(pending[p])
  /\ CurItem(p).retryCount < Threshold
  /\ passLog' = [passLog EXCEPT ![p] = Append(@, Entry(CurItem(p), "?"))]
  /\ pc' = [pc EXCEPT ![p] = "cb"]
  /\ ev' = NoEv
  /\ UNCHANGED <<envVars, timers, store, syncInProgress, pending, idx,
                 succeeded, failed, opOk, faultsLeft, tallyVars, nOpen>>

\* a failure handler that counts down
RetriedDecrement(item, msg) ==
  [item EXCEPT !.retryCount = @ - 1, !.lastError = msg]

\* a failure handler that forgets item.retryCount++
RetriedNoCount(item, msg) == [item EXCEPT !.lastError = msg]

\* item.retryCount++; item.lastError = msg (the object of the snapshot)
Retried(item, msg) ==
  [item EXCEPT !.retryCount = @ + 1, !.lastError = msg]

\* the callback settled with out: "T" returned true, "F" returned false,
\* "X" threw; the pass issues the remove or the update that follows
Settle(p, out, acc) ==
  LET item == CurItem(p)
      next == IF out = "F" THEN Retried(item, SyncFailedMsg)
              ELSE IF out = "X" THEN Retried(item, NetworkErrorMsg)
              ELSE item
  IN /\ nTrue' = IF out = "T" THEN Bump(nTrue, item.id) ELSE nTrue
     /\ nFail' = IF out # "T" THEN Bump(nFail, item.id) ELSE nFail
     /\ nThrow' = IF out = "X" THEN Bump(nThrow, item.id) ELSE nThrow
     /\ accepted' = IF acc THEN Bump(accepted, item.id) ELSE accepted
     /\ pending' = [pending EXCEPT ![p][idx[p]] = next]
     /\ \E ok \in ReqOutcomes :
          /\ store' = IF out = "T" THEN RemoveEffect(item.id, ok)
                      ELSE UpdateEffect(next, ok)
          /\ opOk' = [opOk EXCEPT ![p] = ok]
          /\ faultsLeft' = Spend(ok)
     /\ pc' = [pc EXCEPT ![p] = IF out = "T" THEN "rm"
                               ELSE IF out = "F" THEN "upd_else"
                               ELSE "upd_catch"]
     /\ passLog' = [passLog EXCEPT ![p][Len(passLog[p])].out = out]
     /\ ev' = NoEv
     /\ UNCHANGED <<envVars, timers, syncInProgress, idx, succeeded, failed,
                    nMaxNotif, nErrNotif, nSynced, nOpen>>

\* FeedbackWidget.syncQueuedSubmission: submit, then the screenshot and the
\* recording upload whose results are not looked at; any throw is caught
\* and turned into false
SyncQueuedSubmission(item, sub, shot, rec) ==
  IF sub # "ok" THEN FALSE
  ELSE IF item.shot /\ shot = "throw" THEN FALSE
  ELSE IF item.rec /\ rec = "throw" THEN FALSE
  ELSE TRUE

CallResults == {"ok", "fail", "throw"}

\* the widget's callback settles
DeliverWidget(p) ==
  /\ pc[p] = "cb"
  /\ syncCallback = "widget"
  /\ \E sub \in CallResults, shot \in CallResults, rec \in CallResults :
       Settle(p,
              IF SyncQueuedSubmission(CurItem(p), sub, shot, rec)
                THEN "T" ELSE "F",
              sub = "ok")

\* a pass without the inner try/catch: a throw of the callback leaves
\* sync() at once
DeliverStubUncaught(p) ==
  /\ pc[p] = "cb"
  /\ syncCallback = "stub"
  /\ \/ \E out \in {"T", "F"} : Settle(p, out, out = "T")
     \/ /\ Finally(p, "threw")
        /\ nFail' = Bump(nFail, CurItem(p).id)
        /\ nThrow' = Bump(nThrow, CurItem(p).id)
        /\ UNCHANGED <<envVars, timers, store, faultsLeft, nTrue, accepted,
                       nMaxNotif, nErrNotif, nSynced>>

\* a callback supplied by another host settles: true, false or a throw
DeliverStub(p) ==
  /\ pc[p] = "cb"
  /\ syncCallback = "stub"
  /\ \E out \in {"T", "F", "X"} : Settle(p, out, out = "T")

\* next iteration of the for loop (after the inter-item delay)
NextItem(p) ==
  /\ idx' = [idx EXCEPT ![p] = @ + 1]
  /\ pc' = [pc EXCEPT ![p] = "loop"]
  /\ ev' = NoEv

\* a rejected remove or update inside the inner try lands in the catch:
\* retryCount++, lastError, update again
Caught(p) ==
  LET next == Retried(CurItem(p), StoreErrorMsg)
  IN /\ pending' = [pending EXCEPT ![p][idx[p]] = next]
     /\ \E ok \in ReqOutcomes :
          /\ store' = UpdateEffect(next, ok)
          /\ opOk' = [opOk EXCEPT ![p] = ok]
          /\ faultsLeft' = Spend(ok)
     /\ pc' = [pc EXCEPT ![p] = "upd_catch"]
     /\ ev' = NoEv
     /\ UNCHANGED <<envVars, timers, syncInProgress, idx, succeeded, failed,
                    tallyVars, passLog, nOpen>>

\* the remove after a true result returned
AfterRemove(p) ==
  /\ pc[p] = "rm"
  /\ IF opOk[p]
       THEN /\ nSynced' = Bump(nSynced, CurItem(p).id)
            /\ succeeded' = [succeeded EXCEPT ![p] = @ + 1]
            /\ NextItem(p)
            /\ UNCHANGED <<envVars, timers, store, syncInProgress, pending,
                           failed, opOk, faultsLeft, nFail, nThrow, nTrue,
                           accepted, passLog, nMaxNotif, nErrNotif, nOpen>>
       ELSE Caught(p)

\* an else branch that also calls onSubmissionFailed
AfterUpdateElseNotifies(p) ==
  /\ pc[p] = "upd_else"
  /\ IF opOk[p]
       THEN /\ failed' = [failed EXCEPT ![p] = @ + 1]
            /\ nErrNotif' = Bump(nErrNotif, CurItem(p).id)
            /\ NextItem(p)
            /\ UNCHANGED <<envVars, timers, store, syncInProgress, pending,
                           succeeded, opOk, faultsLeft, nFail, nThrow, nTrue,
                           accepted, nMaxNotif, nSynced, passLog, nOpen>>
       ELSE Caught(p)

\* the update after a false result returned
AfterUpdateElse(p) ==
  /\ pc[p] = "upd_else"
  /\ IF opOk[p]
       THEN /\ failed' = [failed EXCEPT ![p] = @ + 1]
            /\ NextItem(p)
            /\ UNCHANGED <<envVars, timers, store, syncInProgress, pending,
                           succeeded, opOk, faultsLeft, tallyVars, passLog,
                           nOpen>>
       ELSE Caught(p)

\* a catch block that does not call onSubmissionFailed
AfterUpdateCatchSilent(p) ==
  /\ pc[p] = "upd_catch"
  /\ IF opOk[p]
       THEN /\ failed' = [failed EXCEPT ![p] = @ + 1]
            /\ NextItem(p)
            /\ UNCHANGED <<syncInProgress, pending, succeeded, opOk,
                           passLog, nOpen>>
       ELSE Finally(p, "threw")
  /\ UNCHANGED <<envVars, timers, store, faultsLeft, tallyVars>>

\* the update of the catch block returned: onSubmissionFailed and failed++,
\* or the rejection leaves sync() through the finally block
AfterUpdateCatch(p) ==
  /\ pc[p] = "upd_catch"
  /\ IF opOk[p]
       THEN /\ nErrNotif' = Bump(nErrNotif, CurItem(p).id)
            /\ failed' = [failed EXCEPT ![p] = @ + 1]
            /\ NextItem(p)
            /\ UNCHANGED <<syncInProgress, pending, succeeded, opOk,
                           passLog, nOpen>>
       ELSE Finally(p, "threw") /\ UNCHANGED nErrNotif
  /\ UNCHANGED <<envVars, timers, store, faultsLeft, nFail, nThrow, nTrue,
                 accepted, nMaxNotif, nSynced>>

\* the steps of the sync() invocation in slot p, but for the callback
PassStep(p) ==
  \/ PassEnds(p)
  \/ Abandon(p)
  \/ AfterAbandon(p)
  \/ InvokeCallback(p)
  \/ AfterRemove(p)
  \/ AfterUpdateElse(p)

\* ------------------------------------------- FeedbackTransport.uploadRecording
\* variables of the queue and the widget, which the transport never touches
queueVars ==
  <<progVars, budgetVars, hostVars, submitVars, ev, tallyVars, passLog, nOpen>>

\* Math.ceil(totalSize / CHUNK_SIZE)
Ceil(a, b) == (a + b - 1) \div b
Min(a, b) == IF a < b THEN a ELSE b

\* a request of the transport: init (total is totalSize), chunk (index and
\* the byte range [from, to) of the data), complete (total is totalChunks)
\* or metadata (total is fileSize, path is storagePath)
Request(call, id, index, from, to, total, path) ==
  [call |-> call, uploadId |-> id, index |-> index, from |-> from,
   to |-> to, total |-> total, path |-> path]

\* compressedData.slice(i * CHUNK_SIZE, min(i * CHUNK_SIZE + CHUNK_SIZE, size))
ChunkRequest(u, i) ==
  Request("chunk", u.uploadId, i, i * ChunkSize,
          Min(i * ChunkSize + ChunkSize, u.size), 0, 0)

\* what an awaited request can do: resolve to a 2xx answer, resolve to a
\* non-2xx answer, or reject (fetch or response.json() throws)
Answers == {"ok", "fail", "throw"}

\* the invocation ends: return { success: false, ... } or reject
Ends(u, r) ==
  /\ upload' = [u EXCEPT !.pc = "idle", !.answer = r,
                         !.result = IF r = "fail" THEN "failure" ELSE "threw",
                         !.error = IF r = "fail" THEN calls[Len(calls)].call
                                   ELSE "none"]
  /\ UNCHANGED calls

\* the invocation goes on after the init or a chunk: the next chunk while
\* i < totalChunks, then completeChunkedUpload(uploadId, totalChunks)
Proceeds(u) ==
  IF u.i < u.totalChunks
    THEN /\ upload' = [u EXCEPT !.pc = "chunk"]
         /\ calls' = Append(calls, ChunkRequest(u, u.i))
    ELSE /\ upload' = [u EXCEPT !.pc = "complete"]
         /\ calls' = Append(calls, Request("complete", u.uploadId, 0, 0, 0,
                                           u.totalChunks, 0))

\* the locals of a new invocation: totalSize, totalChunks, no uploadId yet,
\* i = 0
Started(size) ==
  [pc |-> "init", size |-> size, totalChunks |-> Ceil(size, ChunkSize),
   uploadId |-> 0, i |-> 0, path |-> 0, answer |-> "none",
   result |-> "none", error |-> "none", before |-> upload.result]

\* an invocation that takes up the session of the invocation before it
\* when that one did not succeed
UploadRecordingResumes(size) ==
  /\ upload.pc = "idle"
  /\ uploadsLeft > 0
  /\ uploadsLeft' = uploadsLeft - 1
  /\ IF upload.result \in {"failure", "threw"} /\ upload.uploadId # 0
       THEN /\ upload' = [upload EXCEPT !.pc = "chunk", !.answer = "none",
                                        !.result = "none",
                                        !.error = "none",
                                        !.before = upload.result]
            /\ calls' = <<ChunkRequest(upload, upload.i)>>
       ELSE /\ upload' = Started(size)
            /\ calls' = <<Request("init", 0, 0, 0, 0, size, 0)>>
  /\ UNCHANGED <<queueVars, nextUploadId>>

\* uploadRecording(feedbackId, compressedData, metadata) up to its first
\* await: initChunkedUpload(feedbackId, totalSize, fileName)
UploadRecording(size) ==
  /\ upload.pc = "idle"
  /\ uploadsLeft > 0
  /\ uploadsLeft' = uploadsLeft - 1
  /\ upload' = Started(size)
  /\ calls' = <<Request("init", 0, 0, 0, 0, size, 0)>>
  /\ UNCHANGED <<queueVars, nextUploadId>>

\* an init whose refusal does not end the call
InitReturnsLenient(r) ==
  /\ upload.pc = "init"
  /\ IF r \in {"ok", "fail"}
       THEN /\ Proceeds([upload EXCEPT !.uploadId = nextUploadId,
                                         !.answer = r])
            /\ nextUploadId' = nextUploadId + 1
       ELSE Ends(upload, r) /\ UNCHANGED nextUploadId
  /\ UNCHANGED <<queueVars, uploadsLeft>>

\* initChunkedUpload settled: 'error' in initResult returns the failure,
\* else the loop starts with the uploadId of the answer
InitReturns(r) ==
  /\ upload.pc = "init"
  /\ IF r = "ok"
       THEN /\ Proceeds([upload EXCEPT !.uploadId = nextUploadId,
                                         !.answer = r])
            /\ nextUploadId' = nextUploadId + 1
       ELSE Ends(upload, r) /\ UNCHANGED nextUploadId
  /\ UNCHANGED <<queueVars, uploadsLeft>>

\* a loop that skips every other chunk
ChunkReturnsSkips(r) ==
  /\ upload.pc = "chunk"
  /\ IF r = "ok"
       THEN Proceeds([upload EXCEPT !.i = @ + 2, !.answer = r])
       ELSE Ends(upload, r)
  /\ UNCHANGED <<queueVars, uploadsLeft, nextUploadId>>

\* uploadChunk(uploadId, i, blob) settled: !chunkResult.success returns the
\* failure, else i++
ChunkReturns(r) ==
  /\ upload.pc = "chunk"
  /\ IF r = "ok"
       THEN Proceeds([upload EXCEPT !.i = @ + 1, !.answer = r])
       ELSE Ends(upload, r)
  /\ UNCHANGED <<queueVars, uploadsLeft, nextUploadId>>

\* storage paths the server answers completeUpload with
Paths == {1, 2}

\* completeChunkedUpload settled: !completeResult.success returns the
\* failure, else the metadata record is posted with completeResult.path
\* and totalSize
CompleteReturns(r) ==
  /\ upload.pc = "complete"
  /\ IF r = "ok"
       THEN \E path \in Paths :
              /\ upload' = [upload EXCEPT !.pc = "meta", !.answer = r,
                                          !.path = path]
              /\ calls' = Append(calls, Request("metadata", upload.uploadId,
                                                0, 0, 0, upload.size, path))
       ELSE Ends(upload, r)
  /\ UNCHANGED <<queueVars, uploadsLeft, nextUploadId>>

\* a call that reports success whatever the metadata request did
MetadataReturnsAnyway(r) ==
  /\ upload.pc = "meta"
  /\ IF r \in {"ok", "fail"}
       THEN /\ upload' = [upload EXCEPT !.pc = "idle", !.answer = r,
                                        !.result = "success"]
            /\ UNCHANGED calls
       ELSE Ends(upload, r)
  /\ UNCHANGED <<queueVars, uploadsLeft, nextUploadId>>

\* the metadata request settled: success with the recordingId, or failure
MetadataReturns(r) ==
  /\ upload.pc = "meta"
  /\ IF r = "ok"
       THEN /\ upload' = [upload EXCEPT !.pc = "idle", !.answer = r,
                                        !.result = "success"]
            /\ UNCHANGED calls
       ELSE Ends(upload, r)
  /\ UNCHANGED <<queueVars, uploadsLeft, nextUploadId>>

\* the transport on its own: recordings of every size up to MaxSize
InitUpload ==
  /\ Fresh
  /\ hasIDB = TRUE
  /\ maxRetries = DefaultMaxRetries
  /\ itemsLeft = 0
  /\ faultsLeft = 0
  /\ closesLeft = 0
  /\ removesLeft = 0
  /\ uploadsLeft = MaxUploads
  /\ submitsLeft = 0

NextUpload ==
  \/ \E size \in 0..MaxSize : UploadRecording(size)
  \/ \E r \in Answers : InitReturns(r)
  \/ \E r \in Answers : ChunkReturns(r)
  \/ \E r \in Answers : CompleteReturns(r)
  \/ \E r \in Answers : MetadataReturns(r)

SpecUpload == InitUpload /\ [][NextUpload]_vars

\* ------------------------------------------- FeedbackWidget.submitFeedback*
\* variables a caller-facing submission never touches
widgetFrame ==
  <<hasIDB, maxRetries, db, listening, isOnline, syncInProgress,
    syncCallback, timers, now, pc, pending, idx, succeeded, failed, opOk,
    budgetVars, hostVars, uploadVars, ev, nFail, nThrow, nTrue, nMaxNotif,
    nErrNotif, nSynced, passLog, nOpen>>

\* this.offlineQueue is set: initOfflineQueue found IndexedDB
HasQueue == hasIDB

\* isNetworkError(error): the message contains 'network', 'fetch',
\* 'offline', 'timeout' or 'ECONNREFUSED' (compared in lower case)
FetchErrorMsg == "Failed to fetch"
ServerErrorMsg == "Invalid signature"
IsNetworkError(msg) == msg \in {FetchErrorMsg, NetworkErrorMsg}

\* what a request of the transport can do: a 2xx answer, a failure result
\* carrying the server's error, or a rejection carrying the error's message
TransportAnswers ==
  {[kind |-> "ok", error |-> ""]}
    \cup [kind : {"fail", "throw"}, error : {FetchErrorMsg, ServerErrorMsg}]

\* the entry points: submit -> submitFeedback, submitWithScreenshot ->
\* submitFeedbackWithScreenshot
SubmitKinds == {"submit", "submitWithScreenshot"}
PayloadsOf(kind) == IF kind = "submit" THEN {PlainPayload} ELSE Payloads

\* the result of a call made while isSubmitting is true
BusyResult(kind, payload) ==
  [kind |-> kind, payload |-> payload, offline |-> ~isOnline,
   open |-> HasQueue /\ db = "open", posted |-> FALSE, queued |-> payload,
   id |-> 0, outcome |-> "busy"]

\* the submission returns its response; finally: isSubmitting = false
Done(s, outcome) ==
  /\ res' = [kind |-> s.kind, payload |-> s.payload, offline |-> s.offline,
             open |-> s.open, posted |-> s.posted, queued |-> s.queued,
             id |-> s.id, outcome |-> outcome]
  /\ submission' = IdleSub
  /\ isSubmitting' = FALSE
  /\ UNCHANGED <<store, nextId, accepted>>

\* queueSubmission(submission, screenshot, annotations, recordingData,
\* recordingMetadata) up to its await: enqueue throws without a database,
\* else it adds the record
QueueSubmission(s, queued) ==
  /\ IF db = "null"
       THEN /\ submission' = [s EXCEPT !.pc = "enq", !.queued = queued,
                                       !.id = 0]
            /\ UNCHANGED <<store, nextId, accepted>>
       ELSE /\ submission' = [s EXCEPT !.pc = "enq", !.queued = queued,
                                       !.id = nextId]
            /\ store' = Put(store, NewItem(nextId, queued, now))
            /\ nextId' = nextId + 1
            /\ accepted' = IF s.posted
                             THEN [accepted EXCEPT ![nextId] = 1]
                             ELSE accepted
  /\ UNCHANGED res

\* a call that does not look at isSubmitting
CallSubmitNoGuard(kind, payload) ==
  /\ submitsLeft > 0
  /\ submitsLeft' = submitsLeft - 1
  /\ IF FALSE
       THEN /\ res' = BusyResult(kind, payload)
            /\ UNCHANGED <<isSubmitting, submission, store, nextId, accepted>>
       ELSE LET s == [pc |-> "post", kind |-> kind, payload |-> payload,
                      offline |-> ~isOnline,
                      open |-> HasQueue /\ db = "open", posted |-> FALSE,
                      queued |-> payload, id |-> 0]
            IN IF kind = "submitWithScreenshot" /\ ~isOnline /\ HasQueue
                 THEN /\ QueueSubmission(s, payload)
                      /\ isSubmitting' = TRUE
                 ELSE /\ submission' = s
                      /\ isSubmitting' = TRUE
                      /\ UNCHANGED <<res, store, nextId, accepted>>
  /\ UNCHANGED widgetFrame

\* a call of submit or submitWithScreenshot up to its first await: the
\* isSubmitting guard, then submitFeedback posts, and
\* submitFeedbackWithScreenshot queues when the queue says offline and
\* posts otherwise
CallSubmit(kind, payload) ==
  /\ submitsLeft > 0
  /\ submitsLeft' = submitsLeft - 1
  /\ IF isSubmitting
       THEN /\ res' = BusyResult(kind, payload)
            /\ UNCHANGED <<isSubmitting, submission, store, nextId, accepted>>
       ELSE LET s == [pc |-> "post", kind |-> kind, payload |-> payload,
                      offline |-> ~isOnline,
                      open |-> HasQueue /\ db = "open", posted |-> FALSE,
                      queued |-> payload, id |-> 0]
            IN IF kind = "submitWithScreenshot" /\ ~isOnline /\ HasQueue
                 THEN /\ QueueSubmission(s, payload)
                      /\ isSubmitting' = TRUE
                 ELSE /\ submission' = s
                      /\ isSubmitting' = TRUE
                      /\ UNCHANGED <<res, store, nextId, accepted>>
  /\ UNCHANGED widgetFrame

\* after the primary record, and after the screenshot: the next upload the
\* submission has, or its success
Uploads(s, from) ==
  IF from = "post" /\ s.payload.shot
    THEN /\ submission' = [s EXCEPT !.pc = "shot"]
         /\ UNCHANGED <<res, isSubmitting, store, nextId, accepted>>
  ELSE IF s.payload.rec
    THEN /\ submission' = [s EXCEPT !.pc = "rec"]
         /\ UNCHANGED <<res, isSubmitting, store, nextId, accepted>>
  ELSE Done(s, "sent")

\* the catch of submitFeedbackWithScreenshot: a network error is queued,
\* with the screenshot and the annotations but without the recording
Catch(s, msg) ==
  IF HasQueue /\ IsNetworkError(msg)
    THEN /\ QueueSubmission(s, [s.payload EXCEPT !.rec = FALSE])
         /\ UNCHANGED isSubmitting
    ELSE Done(s, "failed")

\* transport.submitFeedback(submission) settled
PostReturns(a) ==
  /\ submission.pc = "post"
  /\ IF submission.kind = "submit"
       THEN IF a.kind = "ok"
              THEN Done([submission EXCEPT !.posted = TRUE], "sent")
              ELSE Done(submission, "failed")
       ELSE CASE a.kind = "ok" ->
                   Uploads([submission EXCEPT !.posted = TRUE], "post")
              [] a.kind = "fail" ->
                   IF HasQueue /\ IsNetworkError(a.error)
                     THEN /\ QueueSubmission(submission, submission.payload)
                          /\ UNCHANGED isSubmitting
                     ELSE Done(submission, "failed")
              [] a.kind = "throw" -> Catch(submission, a.error)
  /\ UNCHANGED <<widgetFrame, submitsLeft>>

\* transport.uploadScreenshot settled: a failure result is only logged
ShotReturns(a) ==
  /\ submission.pc = "shot"
  /\ IF a.kind = "throw" THEN Catch(submission, a.error) ELSE Uploads(submission, "shot")
  /\ UNCHANGED <<widgetFrame, submitsLeft>>

\* transport.uploadRecording settled: a failure result is only logged
RecReturns(a) ==
  /\ submission.pc = "rec"
  /\ IF a.kind = "throw" THEN Catch(submission, a.error) ELSE Done(submission, "sent")
  /\ UNCHANGED <<widgetFrame, submitsLeft>>

\* queueSubmission settled: { success: true, feedback_id: 'offline-<id>' },
\* or the failure of enqueue
QueueReturns ==
  /\ submission.pc = "enq"
  /\ Done(submission, IF submission.id # 0 THEN "queued" ELSE "failed")
  /\ UNCHANGED <<widgetFrame, submitsLeft>>

\* the widget: its queue as initOfflineQueue builds it, and MaxSubmits
\* calls of submit and submitWithScreenshot
InitSubmit ==
  /\ Unopened
  /\ syncCallback = "widget"
  /\ hasIDB = TRUE
  /\ maxRetries = DefaultMaxRetries
  /\ itemsLeft = 0
  /\ faultsLeft = 0
  /\ closesLeft = 0
  /\ removesLeft = 0
  /\ uploadsLeft = 0
  /\ submitsLeft = MaxSubmits

NextSubmit ==
  \/ InitQueue
  \/ HandleOnline
  \/ HandleOffline
  \/ \E kind \in SubmitKinds : \E payload \in PayloadsOf(kind) :
       CallSubmit(kind, payload)
  \/ \E a \in TransportAnswers : PostReturns(a)
  \/ \E a \in TransportAnswers : ShotReturns(a)
  \/ \E a \in TransportAnswers : RecReturns(a)
  \/ QueueReturns
  \/ ManualSync
  \/ TimerFires
  \/ \E p \in Procs : PassStep(p) \/ DeliverWidget(p)

SpecSubmit == InitSubmit /\ [][NextSubmit]_vars

\* ---------------------------------------------------------------- Next
\* the queue and a host with its own callback
Next ==
  \/ InitQueue
  \/ Close
  \/ SetSyncCallback("stub")
  \/ \E dt \in {0, 1} : Enqueue(PlainPayload, dt)
  \/ \E id \in Ids : Remove(id)
  \/ Clear
  \/ HandleOnline
  \/ HandleOffline
  \/ ManualSync
  \/ TimerFires
  \/ \E p \in Procs : PassStep(p) \/ DeliverStub(p) \/ AfterUpdateCatch(p)

Spec == Init /\ [][Next]_vars

\* the queue and a host that never calls clear, remove or close
NextRetry ==
  \/ InitQueue
  \/ SetSyncCallback("stub")
  \/ \E dt \in {0, 1} : Enqueue(PlainPayload, dt)
  \/ HandleOnline
  \/ HandleOffline
  \/ ManualSync
  \/ TimerFires
  \/ \E p \in Procs : PassStep(p) \/ DeliverStub(p) \/ AfterUpdateCatch(p)

SpecRetry == InitRetry /\ [][NextRetry]_vars

\* the queue and a host that closes it, and may open it again, at any
\* moment
InitClose ==
  /\ Fresh
  /\ hasIDB \in BOOLEAN
  /\ maxRetries \in MaxRetriesChoices
  /\ itemsLeft = MaxItems
  /\ faultsLeft = 0
  /\ closesLeft = MaxCloses
  /\ removesLeft = 0
  /\ uploadsLeft = 0
  /\ submitsLeft = 0

NextClose ==
  \/ InitQueue
  \/ Close
  \/ SetSyncCallback("stub")
  \/ \E dt \in {0, 1} : Enqueue(PlainPayload, dt)
  \/ HandleOnline
  \/ HandleOffline
  \/ ManualSync
  \/ TimerFires
  \/ \E p \in Procs : PassStep(p) \/ DeliverStub(p) \/ AfterUpdateCatch(p)

SpecClose == InitClose /\ [][NextClose]_vars

\* the queue constructed with { maxRetries: 0 }, or with maxRetries given as
\* undefined: config.maxRetries is falsy
InitFalsy ==
  /\ Fresh
  /\ hasIDB = TRUE
  /\ maxRetries = 0
  /\ itemsLeft = MaxItems
  /\ faultsLeft = 0
  /\ closesLeft = 0
  /\ removesLeft = 0
  /\ uploadsLeft = 0
  /\ submitsLeft = 0

SpecFalsy == InitFalsy /\ [][NextRetry]_vars

\* the queue inside the widget: queueSubmission, syncOffline, the network
\* events and the widget's callback
NextWidget ==
  \/ InitQueue
  \/ \E payload \in Payloads, dt \in {0, 1} : Enqueue(payload, dt)
  \/ HandleOnline
  \/ HandleOffline
  \/ ManualSync
  \/ TimerFires
  \/ \E p \in Procs : PassStep(p) \/ DeliverWidget(p)

SpecWidget == InitWidget /\ [][NextWidget]_vars

\* the queue and a host that only stores and reads
NextStore ==
  \/ InitQueue
  \/ Close
  \/ \E payload \in Payloads, dt \in {0, 1} : Enqueue(payload, dt)
  \/ \E id \in Ids : Remove(id)
  \/ GetPendingCall
  \/ GetPendingCountCall

SpecStore == InitStore /\ [][NextStore]_vars

\* the queue inside a widget whose host never calls syncOffline: passes
\* start from the settle timer only.  A timer that is due fires, and a
\* pass that has started runs on (its awaited calls complete); the network
\* events and the submissions come when the environment pleases.
NextAuto ==
  \/ InitQueue
  \/ \E payload \in Payloads, dt \in {0, 1} : Enqueue(payload, dt)
  \/ HandleOnline
  \/ HandleOffline
  \/ TimerFires
  \/ \E p \in Procs : PassStep(p) \/ DeliverWidget(p)

SpecAuto ==
  /\ InitWidget
  /\ [][NextAuto]_vars
  /\ WF_vars(TimerFires)
  /\ \A p \in Procs : WF_vars(PassStep(p) \/ DeliverWidget(p))

TypeOK ==
  /\ db \in {"null", "open"}
  /\ DOMAIN store \subseteq Ids
  /\ \A p \in Procs : pc[p] \in {"idle", "loop", "abandon", "cb", "rm",
                                 "upd_else", "upd_catch"}
  /\ nOpen \in -1..2

\* ================================================================ claims
Enqueued(id) == id < nextId
InStore(id) == id \in DOMAIN store
\* a pass is between handing item id out and counting its outcome
InFlight(id) ==
  \E p \in Procs : /\ pc[p] \in {"abandon", "cb", "rm", "upd_else", "upd_catch"}
                   /\ CurItem(p).id = id
\* entries of the pass in slot p whose outcome is in outs
Count(p, outs) ==
  Cardinality({k \in 1..Len(passLog[p]) : passLog[p][k].out \in outs})
\* the step is the return (or rejection) of the sync() call in slot p
Returns(p) == Active(p) /\ pc'[p] = "idle"
\* the step records a true result / an abandonment of item id
DeliveredNow(id) == nTrue'[id] # nTrue[id]
AbandonedNow(id) == nMaxNotif'[id] # nMaxNotif[id]

\* ---------------------------------------------------------------- C1
\* C1: at most one sync pass is executing at any instant, and a sync() call
\* made while a pass is in progress returns {succeeded:0, failed:0}, takes
\* no snapshot, leaves the store as it is and fires no notification.
C1_SinglePass ==
  /\ [](/\ Cardinality({p \in Procs : Active(p)}) <= 1
        /\ (\E p \in Procs : Active(p)) => syncInProgress)
  /\ [][(syncInProgress /\ ev'.op = "zero")
          => /\ ev' = ZeroResult
             /\ UNCHANGED <<store, syncInProgress, pc, pending, idx,
                            passLog, tallyVars, nOpen>>]_vars

\* a call was refused while the callback of a running pass is pending
C1_Witness ==
  /\ syncInProgress
  /\ ev.op = "zero"
  /\ \E p \in Procs : pc[p] = "cb"

\* ---------------------------------------------------------------- C2
\* every delivery attempt of item id threw
AlwaysThrew(id) ==
  Enqueued(id) /\ nTrue[id] = 0 /\ nThrow[id] = nFail[id]

\* C2 as stated: with maxRetries = 3 and a callback that always throws, the
\* item is gone after 3 passes and 'Max retries exceeded' has fired once.
C2_Original ==
  \A id \in Ids :
    (AlwaysThrew(id) /\ nFail[id] = maxRetries /\ ~syncInProgress)
      => (~InStore(id) /\ nMaxNotif[id] = 1)

\* C2 amended: with maxRetries = 3 and a callback that always throws, the
\* item is attempted in 3 passes and is still stored, with retryCount 3,
\* after the third; the pass after that removes it without an attempt, and
\* onSubmissionFailed(id, 'Max retries exceeded') fires exactly once, in
\* that fourth pass.
C2_Amended ==
  \A id \in Ids :
    AlwaysThrew(id) =>
      /\ nFail[id] <= maxRetries
      /\ nMaxNotif[id] <= 1
      /\ nMaxNotif[id] = 1 => (nFail[id] = maxRetries /\ ~InStore(id))
      /\ nMaxNotif[id] = 0
           => (InStore(id) /\ store[id].retryCount = nFail[id])

\* three throws, then abandoned by a fourth pass that has returned
C2_Witness ==
  \E id \in Ids :
    /\ AlwaysThrew(id)
    /\ nThrow[id] = 3
    /\ nMaxNotif[id] = 1
    /\ ~InStore(id)
    /\ ~syncInProgress

C5_Original ==
  \A id \in Ids :
    /\ accepted[id] = nTrue[id]
    /\ accepted[id] > 0 => ~InStore(id)

ScenarioDone ==
  /\ nextId = 4
  /\ \A p \in Procs : ~Active(p)
  /\ nTrue[1] = 1 /\ nFail[1] = 0
  /\ nTrue[3] = 1 /\ nFail[3] = 0
  /\ nTrue[2] = 1 /\ nFail[2] = 2

\* C7 as stated: at the end of the scenario the store is empty,
\* onSubmissionFailed was never called for item 2 and every onSyncStart
\* has its onSyncComplete.
C7_Original ==
  ScenarioDone =>
    /\ DOMAIN store = {}
    /\ nErrNotif[2] = 0 /\ nMaxNotif[2] = 0
    /\ nOpen = 0

\* C7 amended: the same scenario, with item 2 failing by the callback
\* returning false (as the widget's callback always does): the store ends
\* empty, onSubmissionFailed was never called for item 2, and each pass
\* called onSyncComplete exactly once, with the succeeded/failed counts of
\* its own items.  (When item 2 fails by a throw, onSubmissionFailed is
\* called for it with the error's message.)
C7_Amended ==
  /\ []((ScenarioDone /\ nThrow[2] = 0) =>
          /\ DOMAIN store = {}
          /\ nErrNotif[2] = 0 /\ nMaxNotif[2] = 0
          /\ nOpen = 0)
  /\ [][\A p \in Procs :
          Returns(p) =>
            /\ nOpen' = nOpen - 1
            /\ ev'.complete = <<Count(p, {"T"}), Count(p, {"F", "X", "A"})>>]_vars

C7_Witness == ScenarioDone /\ nThrow[2] = 0

\* ---------------------------------------------------------------- C8
\* C8: within one pass the items are handed to the callback in
\* non-decreasing createdAt order, the order of the snapshot.
C8_OldestFirst ==
  \A p \in Procs :
    /\ \A k \in 1..Len(passLog[p]) : passLog[p][k].id = pending[p][k].id
    /\ \A i \in 1..Len(passLog[p]), j \in 1..Len(passLog[p]) :
         i < j => passLog[p][i].at <= passLog[p][j].at

\* two items of different age were handed to the callback, the older first
C8_Witness ==
  \E p \in Procs :
    /\ Len(passLog[p]) = 2
    /\ passLog[p][1].at < passLog[p][2].at
    /\ passLog[p][1].out \in {"F", "X"}
    /\ passLog[p][2].out = "?"

\* ---------------------------------------------------------------- C9
\* C9: a failed delivery never stops the pass: a pass returns before the
\* end of its snapshot only when a store request of the pass was rejected,
\* never because the callback returned false or threw, so that the items
\* after a failed one are still attempted or abandoned.
C9_FailureDoesNotStopPass ==
  [][\A p \in Procs :
       Returns(p) => (Len(passLog[p]) = Len(pending[p]) \/ ~opOk[p])]_vars

\* after a failed first item the pass has handed out the second
C9_Witness ==
  \E p \in Procs :
    /\ Len(passLog[p]) = 2
    /\ passLog[p][1].out \in {"F", "X"}
    /\ pc[p] = "cb"

\* ---------------------------------------------------------------- C10
\* C10: every pass that started ends with the flag reset and exactly one
\* onSyncComplete carrying the counts reached so far, also when a store
\* error aborts it; the flag only goes idle -> syncing -> idle, and
\* onSyncStart and onSyncComplete alternate.
C10_StartCompleteAlternate ==
  /\ [](/\ nOpen \in {0, 1}
        /\ nOpen = 1 <=> syncInProgress
        /\ syncInProgress <=> \E p \in Procs : Active(p)
        /\ \A p \in Procs :
             pc[p] = "loop" => succeeded[p] + failed[p] = idx[p] - 1)
  /\ [][\A p \in Procs :
          Returns(p) =>
            /\ ~syncInProgress'
            /\ nOpen' = nOpen - 1
            /\ ev'.complete = <<succeeded[p], failed[p]>>]_vars

\* a pass aborted by a store error has ended with its onSyncComplete
C10_Witness ==
  /\ ev.op = "threw"
  /\ ev.complete # NoComplete
  /\ ~syncInProgress
  /\ nOpen = 0

\* ---------------------------------------------------------------- C11
\* C11: a sync() call made while the queue is offline, or while no delivery
\* callback is registered, starts no pass and returns {succeeded:0,
\* failed:0}: the flag, the store, the passes and every notification
\* counter stay as they were, and no store request is issued.  This holds
\* for a call of the host and for a call of the settle timer.
C11_GuardRefuses ==
  [][(~isOnline \/ syncCallback = "none") =>
       /\ \A p \in Procs : ~Active(p) => pc'[p] = "idle"
       /\ timers' < timers => ev'.op = "zero"
       /\ ev'.op = "zero" =>
            /\ ev' = ZeroResult
            /\ UNCHANGED <<store, syncInProgress, pc, pending, idx, passLog,
                           tallyVars, nOpen, faultsLeft>>]_vars

\* a call was refused offline, with a callback registered, no pass
\* running and an item waiting in the store
C11_Witness ==
  /\ ev.op = "zero"
  /\ ~isOnline
  /\ syncCallback = "stub"
  /\ ~syncInProgress
  /\ DOMAIN store # {}

\* ---------------------------------------------------------------- C12
\* ids of the snapshot of the pass in slot p
SnapshotIds(p) == {pending[p][k].id : k \in 1..Len(pending[p])}
\* item id is stored but not in the snapshot of the running pass p: where
\* nothing but a pass removes items, it was enqueued during that pass
Late(p, id) == Active(p) /\ InStore(id) /\ id \notin SnapshotIds(p)

\* C12: a pass works on the snapshot taken at its start.  The snapshot is
\* the whole store at the start and never grows; an item enqueued while
\* the pass runs is not handed to the callback by that pass, stays in the
\* store untouched with retryCount 0, and is in the snapshot of the next
\* pass, which handles every item of its snapshot before it returns.
C12_Snapshot ==
  /\ [](\A p \in Procs, id \in Ids :
          Late(p, id) =>
            /\ store[id].retryCount = 0
            /\ nTrue[id] = 0 /\ nFail[id] = 0 /\ nMaxNotif[id] = 0
            /\ \A k \in 1..Len(passLog[p]) : passLog[p][k].id # id)
  /\ [][\A p \in Procs :
          /\ (~Active(p) /\ pc'[p] # "idle")
               => {pending'[p][k].id : k \in 1..Len(pending'[p])}
                    = DOMAIN store
          /\ (Active(p) /\ pc'[p] # "idle")
               => /\ {pending'[p][k].id : k \in 1..Len(pending'[p])}
                       = SnapshotIds(p)
                  /\ \A id \in Ids : Late(p, id) => id \in DOMAIN store'
          /\ Returns(p)
               => SnapshotIds(p) = {passLog[p][k].id : k \in 1..Len(passLog[p])}
       ]_vars

\* after item 1 was delivered, a pass is handing out item 2 while an item
\* enqueued during this pass, absent from its snapshot, waits in the store
C12_Witness ==
  \E p \in Procs, id \in Ids :
    /\ Late(p, id)
    /\ pc[p] = "cb"
    /\ CurItem(p).id = 2
    /\ nTrue[1] = 1

\* ---------------------------------------------------------------- C13
\* the loop of the pass in slot p stands at an item whose retryCount has
\* reached maxRetries
AtExhausted(p) ==
  /\ pc[p] = "loop"
  /\ opOk[p]
  /\ idx[p] <= Len(pending[p])
  /\ CurItem(p).retryCount >= maxRetries

Attempts(id) == nTrue[id] + nFail[id]
\* no store request has been rejected and close() has not been called: the
\* behaviour's budget of rejections or of close() calls is whole, or it is
\* a behaviour of host remove(id) calls
StoreHealthy ==
  \/ faultsLeft = MaxFaults
  \/ closesLeft = MaxCloses
  \/ removesLeft > 0

C15_OfflineOnlyFlag ==
  [][/\ (isOnline /\ ~isOnline')
          => UNCHANGED <<db, listening, store, syncInProgress, syncCallback,
                         timers, pc, pending, idx, succeeded, failed, opOk,
                         passLog, tallyVars, nOpen>>
     /\ \A p \in Procs :
          /\ (Returns(p) /\ ~isOnline)
               => (Len(passLog[p]) = Len(pending[p]) \/ ~opOk[p])
          /\ (~isOnline /\ pc[p] = "cb" /\ pc'[p] \in {"upd_else", "upd_catch"})
               => pending'[p][idx[p]].retryCount = CurItem(p).retryCount + 1
    ]_vars

\* offline, the pass has counted the failure of its first item and has
\* handed out the second
C15_Witness ==
  \E p \in Procs :
    /\ ~isOnline
    /\ pc[p] = "cb"
    /\ idx[p] = 2
    /\ passLog[p][1].out \in {"F", "X"}
    /\ failed[p] = 1

\* ---------------------------------------------------------------- C16
\* C16: every transition to online sets the connectivity flag and schedules
\* one sync() call on a timer; the scheduling step itself starts no pass
\* and touches neither the store nor the notifications.  When the timer
\* fires, the call starts a pass exactly if at that moment the queue is
\* online, no pass is in progress and a callback is registered; otherwise
\* it returns {succeeded:0, failed:0} and changes nothing.
C16_OnlineSchedulesSync ==
  [][/\ (~isOnline /\ isOnline') => timers' = timers + 1
     /\ timers' > timers
          => /\ isOnline'
             /\ timers' = timers + 1
             /\ ev'.op = "none"
             /\ UNCHANGED <<store, syncInProgress, pc, pending, idx, passLog,
                            tallyVars, nOpen>>
     /\ timers' < timers
          => /\ timers' = timers - 1
             /\ IF SyncGuard
                  THEN /\ syncInProgress'
                       /\ nOpen' = nOpen + 1
                       /\ \E p \in Procs : ~Active(p) /\ pc'[p] = "loop"
                  ELSE /\ ev' = ZeroResult
                       /\ UNCHANGED <<store, syncInProgress, pc, pending,
                                      idx, passLog, tallyVars, nOpen>>
    ]_vars

\* the timer scheduled by an online event has fired and started a pass
\* over a stored item
C16_Witness ==
  /\ timers = 0
  /\ isOnline
  /\ syncInProgress
  /\ \E p \in Procs : /\ pc[p] = "loop"
                      /\ idx[p] = 1
                      /\ Len(pending[p]) > 0
                      /\ passLog[p] = <<>>
  /\ ev.op = "none"

\* ---------------------------------------------------------------- C17
\* the step is a resolved enqueue / a remove call of the host
EnqueueStep == ev'.op = "enqueue" /\ ~ev'.threw /\ nextId' = nextId + 1
RemoveStep == ev'.op = "remove" /\ removesLeft' = removesLeft - 1

\* C17 as stated, step by step: on an open store every add raises
\* getPendingCount() by one and every remove call lowers it by one, so
\* that the count is the number of adds minus the number of removes.
C17_Original ==
  [][(db = "open" /\ db' = "open") =>
       /\ EnqueueStep => GetPendingCount' = GetPendingCount + 1
       /\ RemoveStep => GetPendingCount' = GetPendingCount - 1]_vars

\* C17 amended: on an open store every add raises getPendingCount() by
\* one; a remove(id) lowers it by one when id is in the store and leaves it
\* unchanged when it is not (delete of an absent key succeeds); reads
\* leave it unchanged.  The count is the number of adds minus the number
\* of remove calls that named a stored id.
C17_Amended ==
  [][(db = "open" /\ db' = "open") =>
       /\ EnqueueStep => GetPendingCount' = GetPendingCount + 1
       /\ RemoveStep =>
            GetPendingCount' = IF ev'.arg \in DOMAIN store
                                 THEN GetPendingCount - 1
                                 ELSE GetPendingCount
       /\ RemoveStep => DOMAIN store' = DOMAIN store \ {ev'.arg}
       /\ (~EnqueueStep /\ ~RemoveStep)
            => GetPendingCount' = GetPendingCount]_vars

\* two adds and a remove call on a store that was never closed, and the
\* count is still two: the remove named an id that was not stored
C17_Witness ==
  /\ ev.op = "remove"
  /\ db = "open"
  /\ closesLeft = MaxCloses
  /\ nextId = 3
  /\ removesLeft = MaxRemoves - 1
  /\ GetPendingCount = 2

\* ---------------------------------------------------------------- C18
\* C18: round trip.  After a resolved enqueue(item) on an open store,
\* getPending() contains exactly one record with the returned id; the id
\* was not in use before; the record has the caller's fields as supplied,
\* createdAt equal to the clock at the call, retryCount 0 and no
\* lastError; and the records that were stored before are unchanged.
C18_RoundTrip ==
  [][EnqueueStep =>
       /\ ev'.value \notin DOMAIN store
       /\ \E k \in 1..Len(GetPending') :
            /\ GetPending'[k].id = ev'.value
            /\ GetPending'[k].shot = ev'.arg.shot
            /\ GetPending'[k].rec = ev'.arg.rec
            /\ GetPending'[k].createdAt = now'
            /\ GetPending'[k].retryCount = 0
            /\ GetPending'[k].lastError = "none"
            /\ \A j \in 1..Len(GetPending') :
                 GetPending'[j].id = ev'.value => j = k
       /\ Len(GetPending') = Len(GetPending) + 1
       /\ \A id \in DOMAIN store : store'[id] = store[id]]_vars

\* a second item, with a screenshot, was enqueued and is in the store as
\* supplied, next to the first
C18_Witness ==
  /\ ev.op = "enqueue"
  /\ ~ev.threw
  /\ ev.value = 2
  /\ ev.arg.shot
  /\ InStore(2) /\ store[2].shot /\ ~store[2].rec
  /\ InStore(1)

\* ---------------------------------------------------------------- C19
\* the latest step was a call of a store operation
StoreOps == {"enqueue", "getPending", "getPendingCount", "remove", "clear"}
\* close() has been called and the queue has not been opened again
Closed == db = "null" /\ closesLeft < MaxCloses

\* C19 as stated: a store operation called after close() fails (its
\* promise is rejected) instead of returning a result.
C19_Original == (Closed /\ ev.op \in StoreOps) => ev.threw

\* ---------------------------------------------------------------- C20
\* C20 as stated: init() on a platform without IndexedDB does not complete
\* successfully.
C20_Original == (~hasIDB /\ ev.op = "init") => ev.threw

\* ---------------------------------------------------------------- C22
\* passes that are waiting for the callback's answer about item id
AttemptsInFlight(id) ==
  {p \in Procs : pc[p] = "cb" /\ CurItem(p).id = id}

\* C22: no two delivery attempts for one id are in flight at once: at most
\* one pass is waiting for the callback, a snapshot holds an id once, and
\* the pass hands out one item at a time.
C22_OneAttemptInFlight ==
  /\ \A id \in Ids : Cardinality(AttemptsInFlight(id)) <= 1
  /\ Cardinality({p \in Procs : pc[p] = "cb"}) <= 1
  /\ \A p \in Procs :
       /\ \A i \in 1..Len(pending[p]), j \in 1..Len(pending[p]) :
            pending[p][i].id = pending[p][j].id => i = j
       /\ Count(p, {"?"}) <= 1
       /\ pc[p] = "cb" <=> Count(p, {"?"}) = 1

\* an attempt for item 1 is in flight for the second time, a second item
\* is stored and a settle timer is about to call sync()
C22_Witness ==
  /\ AttemptsInFlight(1) # {}
  /\ nFail[1] = 1
  /\ InStore(2)
  /\ timers = 1

\* ---------------------------------------------------------------- C23
\* C23: the retryCount stored for an id never decreases from one state to
\* the next while the item is stored, whatever step is taken; and a record
\* that a pass writes back after the host removed it carries a count above
\* the one it was enqueued with.
C23_RetryCountMonotone ==
  [][\A id \in Ids :
       /\ (id \in DOMAIN store /\ id \in DOMAIN store')
            => store'[id].retryCount >= store[id].retryCount
       /\ (id \notin DOMAIN store /\ id \in DOMAIN store' /\ Enqueued(id))
            => store'[id].retryCount > 0]_vars

\* an item is stored with the count of two failed attempts
C23_Witness ==
  \E id \in Ids :
    /\ InStore(id)
    /\ store[id].retryCount = 2
    /\ nFail[id] = 2

\* ---------------------------------------------------------------- C27
\* C27 as stated: a record enters the store only by an enqueue, which
\* gives it a new id; an item that clear() or remove(id) took out never
\* comes back.
C27_Original ==
  [][\A id \in Ids :
       (id \notin DOMAIN store /\ id \in DOMAIN store')
         => (id = nextId /\ nextId' = nextId + 1)]_vars

\* ---------------------------------------------------------------- C28
\* passes that have handled item id: each pass attempts or abandons an
\* item of its snapshot once
Handled(id) == nTrue[id] + nFail[id] + nMaxNotif[id]

\* C28: on a store whose requests succeed, an item is handled by at most
\* maxRetries + 1 passes: at most maxRetries attempts, each in its own
\* pass, and one abandonment; a pass that starts with the item in the
\* store has it in its snapshot and handles it before it returns; and
\* after the pass number maxRetries + 1 the item is out of the store.
C28_RemovedWithinBound ==
  /\ [](\A id \in Ids :
          /\ Handled(id) <= maxRetries + 1
          /\ nTrue[id] + nMaxNotif[id] <= 1
          /\ (Handled(id) = maxRetries + 1 /\ ~InFlight(id)) => ~InStore(id)
          /\ (nTrue[id] + nMaxNotif[id] = 1 /\ ~InFlight(id)) => ~InStore(id))
  /\ [][\A p \in Procs :
          /\ (~Active(p) /\ pc'[p] # "idle")
               => \A id \in DOMAIN store :
                    \E k \in 1..Len(pending'[p]) : pending'[p][k].id = id
          /\ Returns(p)
               => /\ Len(passLog[p]) = Len(pending[p])
                  /\ \A k \in 1..Len(passLog[p]) :
                       passLog[p][k].id = pending[p][k].id]_vars

\* an item failed in maxRetries passes and the pass after them took it out
C28_Witness ==
  \E id \in Ids :
    /\ nFail[id] = maxRetries
    /\ nMaxNotif[id] = 1
    /\ ~InStore(id)
    /\ ~syncInProgress
    /\ \E other \in Ids : other # id /\ nTrue[other] = 1 /\ ~InStore(other)

\* ---------------------------------------------------------------- C29
\* the store holds an item, the queue is online and has its callback
Waiting ==
  /\ db = "open"
  /\ DOMAIN store # {}
  /\ isOnline
  /\ syncCallback # "none"

\* C29 as stated: whenever an item waits in the store of a queue that is
\* online with a callback, and the queue stays online from then on, a sync
\* pass eventually runs, without a sync() call of the host.
C29_Original == []((Waiting /\ []isOnline) => <>syncInProgress)

\* ---------------------------------------------------------------- C24
\* requests of one kind made so far by the present uploadRecording call
CallsOf(kind) == {k \in 1..Len(calls) : calls[k].call = kind}
\* the number of chunks of the present call
Chunks == Ceil(upload.size, ChunkSize)

\* C24: after a successful init, uploadRecording of S bytes sends the
\* chunks with indices 0, 1, ... in increasing order, chunk i with the bytes
\* [i*C, min((i+1)*C, S)) and only after the i chunks before it succeeded,
\* and when all ceil(S/C) chunks succeeded it sends exactly one
\* completeUpload(uploadId, ceil(S/C)), after the last chunk.
C24_ChunksInOrder ==
  /\ \A k \in CallsOf("chunk") :
       /\ k >= 2
       /\ calls[k].index = k - 2
       /\ calls[k].index < Chunks
       /\ calls[k].from = calls[k].index * ChunkSize
       /\ calls[k].to = Min((calls[k].index + 1) * ChunkSize, upload.size)
       /\ calls[k].index <= upload.i
  /\ \A k \in CallsOf("complete") :
       /\ k = Chunks + 2
       /\ CallsOf("chunk") = 2..(Chunks + 1)
       /\ calls[k].total = Chunks
       /\ calls[k].uploadId = upload.uploadId
       /\ upload.i = Chunks
  /\ Cardinality(CallsOf("complete")) <= 1
  /\ (upload.uploadId # 0 /\ upload.i = Chunks)
       => Cardinality(CallsOf("complete")) = 1

\* 2.5 MiB: chunks 0, 1, 2 with the last one half full, then
\* completeUpload(uploadId, 3)
C24_Witness ==
  /\ upload.size = 5
  /\ Len(calls) >= 5
  /\ calls[2].index = 0 /\ calls[3].index = 1 /\ calls[4].index = 2
  /\ calls[4].from = 4 /\ calls[4].to = 5
  /\ calls[5].call = "complete" /\ calls[5].total = 3

\* ---------------------------------------------------------------- C25
\* the latest request was a chunk and it did not succeed
ChunkFailed ==
  /\ upload.answer \in {"fail", "throw"}
  /\ calls # <<>>
  /\ calls[Len(calls)].call = "chunk"

\* a failed chunk is the last request of the call, and completeUpload
\* follows totalChunks chunks that succeeded
C25_Aborts ==
  /\ ChunkFailed => /\ upload.pc = "idle"
                    /\ CallsOf("complete") = {}
                    /\ CallsOf("metadata") = {}
  /\ CallsOf("complete") # {} => upload.i = Chunks

\* C25: if a chunk fails, no later chunk, no completeUpload and no metadata
\* request is sent and uploadRecording returns a failure; completeUpload is
\* sent only after all chunks succeeded.
C25_Original ==
  /\ C25_Aborts
  /\ ChunkFailed => upload.result = "failure"

\* ---------------------------------------------------------------- C26
\* C26: every uploadRecording call starts with exactly one init, every chunk
\* and completeUpload of the call carries the uploadId which that init
\* returned, an id no earlier call had, and the chunks start at index 0.
C26_NeverResumed ==
  /\ [](/\ calls # <<>> => CallsOf("init") = {1}
        /\ \A k \in CallsOf("chunk") \cup CallsOf("complete") :
             /\ upload.uploadId # 0
             /\ calls[k].uploadId = upload.uploadId
        /\ 2 \in CallsOf("chunk") => calls[2].index = 0)
  /\ [][/\ (upload.pc = "idle" /\ upload'.pc # "idle")
             => upload'.uploadId = 0 /\ upload'.i = 0
        /\ upload'.uploadId \notin {0, upload.uploadId}
             => /\ upload.pc = "init"
                /\ upload'.uploadId = nextUploadId
                /\ nextUploadId' = nextUploadId + 1]_vars

\* the call after one that failed past its first chunk sends chunk 0 under
\* a new uploadId
C26_Witness ==
  /\ upload.before \in {"failure", "threw"}
  /\ nextUploadId = 3
  /\ 2 \in CallsOf("chunk")
  /\ calls[2].uploadId = 2
  /\ calls[2].index = 0

\* ---------------------------------------------------------------- C21
\* C21: a submit or submitWithScreenshot call made while the queue says
\* offline and its database is open does not report the failure: the
\* submission is put in the queue and the caller gets the queued result.
C21_Original ==
  (res.outcome \notin {"none", "busy"} /\ res.offline /\ res.open)
    => (res.outcome = "queued" /\ res.id # 0)

\* ---------------------------------------------------------------- C30
\* C30: once the server has accepted the primary record of a
\* submitWithScreenshot call, the submission is not put in the offline
\* queue and the caller gets the server's success result, also when an
\* upload after it throws a network error.
C30_Original ==
  (res.kind = "submitWithScreenshot" /\ res.posted)
    => (res.outcome = "sent" /\ res.id = 0)

\* ---------------------------------------------------------------- C32
\* C32: if the init request is answered with a non-2xx status,
\* uploadRecording returns a failure carrying the error of the init and
\* sends no chunk, no completeUpload and no metadata request.
C32_InitRefused ==
  /\ [][(upload.pc = "init" /\ upload'.answer = "fail")
          => /\ upload'.pc = "idle"
             /\ upload'.result = "failure"
             /\ upload'.error = "init"
             /\ calls' = calls
             /\ Len(calls) = 1]_vars
  /\ [](CallsOf("chunk") \cup CallsOf("complete") \cup CallsOf("metadata") # {}
          => upload.uploadId # 0)

\* the init was refused and the call has returned
C32_Witness ==
  /\ upload.pc = "idle"
  /\ upload.result = "failure"
  /\ upload.error = "init"
  /\ upload.size > 0
  /\ Len(calls) = 1

\* ---------------------------------------------------------------- C33
\* C33: the metadata request is sent at most once, only after completeUpload
\* succeeded, with the path completeUpload returned and the total size; and
\* uploadRecording returns success exactly when the init, every chunk,
\* completeUpload and the metadata request all succeeded.
C33_MetadataLast ==
  /\ Cardinality(CallsOf("metadata")) <= 1
  /\ \A k \in CallsOf("metadata") :
       /\ k = Len(calls)
       /\ k - 1 \in CallsOf("complete")
       /\ upload.path \in Paths
       /\ calls[k].path = upload.path
       /\ calls[k].total = upload.size
       /\ calls[k].uploadId = upload.uploadId
  /\ upload.pc \in {"init", "chunk", "complete"} => CallsOf("metadata") = {}
  /\ upload.result = "success"
       <=> /\ upload.pc = "idle"
           /\ upload.answer = "ok"
           /\ upload.uploadId # 0
           /\ upload.i = Chunks
           /\ CallsOf("complete") # {}
           /\ CallsOf("metadata") # {}

\* a recording of two chunks went through all four phases
C33_Witness ==
  /\ upload.result = "success"
  /\ upload.size = 4
  /\ Len(calls) = 5
  /\ calls[5].call = "metadata"
  /\ calls[5].path = 2
  /\ calls[5].total = 4

\* ---------------------------------------------------------------- C34
\* C34: when a submission made online fails with a network error and is
\* queued instead, the queued record carries all the caller's submission
\* had: payload, screenshot, annotations and, if there was one, the
\* recording with its metadata; whether the transport returned a failure
\* result or threw.
C34_Original ==
  (/\ res.kind = "submitWithScreenshot"
   /\ ~res.offline
   /\ ~res.posted
   /\ res.outcome = "queued")
    => res.queued = res.payload

Invoked(id) ==
  \E p \in Procs : /\ pc[p] = "loop"
                   /\ pc'[p] = "cb"
                   /\ CurItem(p).id = id

\* C35: once the delivery callback has returned true for an id, the callback
\* is never invoked for that id again, in this pass or a later one, also
\* when the remove that follows fails or the store is closed meanwhile.
C35_Original == [][\A id \in Ids : Invoked(id) => nTrue[id] = 0]_vars

\* ---------------------------------------------------------------- C37
\* C37: with maxRetries configured >= 1, every stored item has
\* 0 <= retryCount <= maxRetries.
C37_Original ==
  maxRetries >= 1
    => \A id \in DOMAIN store :
         store[id].retryCount >= 0 /\ store[id].retryCount <= maxRetries

\* ---------------------------------------------------------------- C36
\* the counts of a pass add up: each succeeded++ follows a true result whose
\* remove resolved, a pass that reached the end of its snapshot returns
\* succeeded + failed = the length of the snapshot, and onSyncComplete gets
\* the counts that sync() returns
C36_Counts ==
  [][\A p \in Procs :
       /\ succeeded'[p] = succeeded[p] + 1
            => /\ pc[p] = "rm"
               /\ opOk[p]
               /\ passLog[p][Len(passLog[p])].out = "T"
       /\ (Returns(p) /\ ev'.op = "done")
            => /\ ev'.succeeded + ev'.failed = Len(pending[p])
               /\ ev'.succeeded = succeeded[p]
               /\ ev'.failed = failed[p]
               /\ ev'.complete = <<ev'.succeeded, ev'.failed>>]_vars

\* C36: a pass that runs to the end of its snapshot returns succeeded +
\* failed = the number of items of the snapshot, succeeded is the number of
\* items removed after a true result, and onSyncComplete gets the counts
\* sync() returns.
C36_Original ==
  /\ C36_Counts
  /\ [][\A p \in Procs :
          succeeded'[p] = succeeded[p] + 1
            => CurItem(p).id \notin DOMAIN store']_vars

\* ---------------------------------------------------------------- C31
\* the step belongs to the sync() invocation in slot p
PassStepOf(p) == pc'[p] # pc[p]
\* records a and b differ at most in retryCount and lastError
SameButRetry(a, b) ==
  /\ a.id = b.id
  /\ a.shot = b.shot
  /\ a.rec = b.rec
  /\ a.createdAt = b.createdAt

\* what a step may do to the items that stay in the store: a pass may
\* change retryCount and lastError of the item at hand, raising the count,
\* and nothing else changes any field of a stored item
C31_Fields ==
  [][\A id \in DOMAIN store \cap DOMAIN store' :
       \/ store'[id] = store[id]
       \/ \E p \in Procs : /\ PassStepOf(p)
                           /\ pc[p] \in {"cb", "rm", "upd_else"}
                           /\ CurItem(p).id = id
                           /\ SameButRetry(store'[id], store[id])
                           /\ store'[id].retryCount > store[id].retryCount]_vars

\* C31: a pass changes nothing in the store but retryCount and lastError of
\* items it attempted and that failed, and it removes delivered and
\* abandoned items; the other fields stay as enqueued, other items are
\* untouched, and nothing but a pass changes retryCount or lastError.
C31_Original ==
  /\ C31_Fields
  /\ [][\A p \in Procs :
          PassStepOf(p)
            => /\ DOMAIN store' \subseteq DOMAIN store
               /\ \A id \in DOMAIN store \ DOMAIN store' :
                    id = CurItem(p).id]_vars

\* ---------------------------------------------------------------- C39
\* C39: after close() has returned, no sync pass starts on the queue:
\* neither a settle timer scheduled before nor a manual sync() sets
\* syncInProgress or fires onSyncStart, and online and offline events no
\* longer change the connectivity flag.
C39_Original ==
  [][Closed => /\ syncInProgress' => syncInProgress
               /\ nOpen' <= nOpen
               /\ isOnline' = isOnline]_vars

\* ---------------------------------------------------------------- C38
\* the step abandons, or hands to the callback, the item of the pass in p
Abandons(p) == pc[p] = "loop" /\ pc'[p] = "abandon"
HandsOut(p) == pc[p] = "loop" /\ pc'[p] = "cb"

\* C38: a pass abandons at the configured maxRetries when that is positive
\* and at 3 when it is 0 or not set: with maxRetries 0 an item with
\* retryCount 0, 1 or 2 is attempted and one with retryCount 3 is abandoned.
C38_FalsyMeansThree ==
  [][\A p \in Procs :
       LET limit == IF maxRetries > 0 THEN maxRetries ELSE 3
       IN /\ Abandons(p) => CurItem(p).retryCount >= limit
          /\ HandsOut(p) => CurItem(p).retryCount < limit]_vars

\* with maxRetries 0 an item was attempted three times and then abandoned
C38_Witness ==
  /\ maxRetries = 0
  /\ nFail[1] = 3
  /\ nMaxNotif[1] = 1
  /\ 1 \notin DOMAIN store

====
